---- MODULE Spec2Model ----
(***************************************************************************)
(* A model of the draft engine of src/game.py (class DraftEnv): the card   *)
(* catalog index, the pack generator, the pick-and-pass table state        *)
(* machine, the observation/mask codec and the deck assembler.             *)
(*                                                                         *)
(* The table is scaled down: the sizes set in DraftEnv.__init__ (8 seats,  *)
(* 3 rounds, 15 slots) and the pack composition of make_pack (10 commons,  *)
(* 3 uncommons) are the definitions num_players .. UncommonsPerPack below. *)
(* The row counts 45, 60 and the mask length 15 that the source writes as  *)
(* literals are num_packs * cards_per_pack, that plus cards_per_pack, and  *)
(* cards_per_pack, and are scaled with them.                               *)
(*                                                                         *)
(* Python's module-level generator `random` is one state cell per process: *)
(* every draw reads it and advances it, random.seed(s) overwrites it.      *)
(***************************************************************************)
EXTENDS Integers, Sequences, FiniteSets, TLC

VARIABLES
    env,          \* the DraftEnv instance under test (test.py: env = DraftEnv())
    random_state, \* the module-level `random` generator of env's process
    call,         \* the last call made on env: operation, argument, what it returned
    env2,         \* a second DraftEnv instance living in the same process as env
    calls2,       \* the number of calls made on env2
    ref,          \* a DraftEnv instance run on its own in another process
    ref_random    \* the module-level `random` generator of ref's process

vars == <<env, random_state, call, env2, calls2, ref, ref_random>>

---------------------------------------------------------------------------
(* Sizes.                                                                  *)

num_players == 2
num_packs == 2
cards_per_pack == 4
CommonsPerPack == 1
UncommonsPerPack == 1
RngModulus == 16
MaxSeed == 1
MaxCalls2 == 2
MaxRecords == 4
MaxCount == 2
MaxTally == 3
MaxExtraPicks == 1

main_count == 33
land_count == 27

None == -1

Colors == <<"W", "U", "B", "R", "G">>

PickRows == num_packs * cards_per_pack
ObsRows == PickRows + cards_per_pack

Min(a, b) == IF a < b THEN a ELSE b

\* The element of a one-element set: Only({F(x) : x \in {v}}) is F applied to
\* the value of v, v evaluated once, as a Python assignment evaluates it.
Only(S) == CHOOSE y \in S : TRUE

---------------------------------------------------------------------------
(* The random source.  RandBelow is the index a draw over n alternatives   *)
(* yields in generator state r, RandAdvance the state after the draw.      *)

RandBelow(r, n) == (r \div 3) % n

RandAdvance(r) == (13 * r + 7) % RngModulus

random_seed_ignored(r, seed) == r

random_seed(r, seed) == IF seed = None THEN r ELSE (7 * seed + 1) % RngModulus

\* random.choice(seq): <<chosen element, generator state afterwards>>
random_choice(seq, r) == <<seq[RandBelow(r, Len(seq)) + 1], RandAdvance(r)>>

\* pack_ids.append(random.choice(seq)) on p = <<pack_ids, generator state>>
append_choice(p, seq) ==
    Only({<<Append(q[1], seq[RandBelow(q[2], Len(seq)) + 1]), RandAdvance(q[2])>>
          : q \in {p}})

\* pack_ids.extend(random.sample(population, k)) on p = <<pack_ids, generator
\* state>>, the pool branch of CPython's algorithm: for i in range(k):
\* j = randbelow(n - i); result[i] = pool[j]; pool[j] = pool[n - i - 1].
RECURSIVE extend_sample(_, _, _, _, _)
extend_sample(p, pool, n, i, k) ==
    IF i = k THEN p
    ELSE Only({extend_sample(
                 <<Append(v[1][1], v[2][RandBelow(v[1][2], n - i) + 1]),
                   RandAdvance(v[1][2])>>,
                 [v[2] EXCEPT ![RandBelow(v[1][2], n - i) + 1] = v[2][n - i]],
                 n, i + 1, k)
              : v \in {<<p, pool>>}})

---------------------------------------------------------------------------
(* Card Catalog Index: DraftEnv._build_maps.                               *)

Lower(s) ==
    CASE s = "Common" -> "common"
      [] s = "Uncommon" -> "uncommon"
      [] s = "Rare" -> "rare"
      [] s = "Mythic" -> "mythic"
      [] OTHER -> s

EmptyMaps ==
    [card_id_map |-> <<>>,
     id_card_map |-> <<>>,
     card_color_identity |-> <<>>,
     rarity_pools |-> [common |-> <<>>, uncommon |-> <<>>, rare |-> <<>>,
                       mythic |-> <<>>, basic_land |-> <<>>],
     idx |-> 0]

build_maps_record_fresh(m, card) ==
    LET seen == FALSE
        cid == IF seen THEN m.card_id_map[card.name] ELSE m.idx
        idmap == IF seen THEN m.card_id_map
                 ELSE [n \in DOMAIN m.card_id_map \cup {card.name} |->
                          IF n = card.name THEN m.idx ELSE m.card_id_map[n]]
        names == IF seen THEN m.id_card_map
                 ELSE [i \in DOMAIN m.id_card_map \cup {m.idx} |->
                          IF i = m.idx THEN card.name ELSE m.id_card_map[i]]
        colors == [i \in DOMAIN m.card_color_identity \cup {cid} |->
                      IF i = cid THEN card.color_identity
                      ELSE m.card_color_identity[i]]
        rar == Lower(card.rarity)
        pools == IF card.is_basic_land
                 THEN [m.rarity_pools EXCEPT !["basic_land"] = Append(@, cid)]
                 ELSE IF rar \in DOMAIN m.rarity_pools
                      THEN [m.rarity_pools EXCEPT ![rar] = Append(@, cid)]
                      ELSE m.rarity_pools
    IN  [card_id_map |-> idmap,
         id_card_map |-> names,
         card_color_identity |-> colors,
         rarity_pools |-> pools,
         idx |-> IF seen THEN m.idx ELSE m.idx + 1]

\* One iteration of the loop over cards_data.  card_id_map is a function
\* from names to identities, id_card_map and card_color_identity are
\* functions from identities.
build_maps_record(m, card) ==
    LET seen == card.name \in DOMAIN m.card_id_map
        cid == IF seen THEN m.card_id_map[card.name] ELSE m.idx
        idmap == IF seen THEN m.card_id_map
                 ELSE [n \in DOMAIN m.card_id_map \cup {card.name} |->
                          IF n = card.name THEN m.idx ELSE m.card_id_map[n]]
        names == IF seen THEN m.id_card_map
                 ELSE [i \in DOMAIN m.id_card_map \cup {m.idx} |->
                          IF i = m.idx THEN card.name ELSE m.id_card_map[i]]
        colors == [i \in DOMAIN m.card_color_identity \cup {cid} |->
                      IF i = cid THEN card.color_identity
                      ELSE m.card_color_identity[i]]
        rar == Lower(card.rarity)
        pools == IF card.is_basic_land
                 THEN [m.rarity_pools EXCEPT !["basic_land"] = Append(@, cid)]
                 ELSE IF rar \in DOMAIN m.rarity_pools
                      THEN [m.rarity_pools EXCEPT ![rar] = Append(@, cid)]
                      ELSE m.rarity_pools
    IN  [card_id_map |-> idmap,
         id_card_map |-> names,
         card_color_identity |-> colors,
         rarity_pools |-> pools,
         idx |-> IF seen THEN m.idx ELSE m.idx + 1]

RECURSIVE build_maps_loop(_, _, _)
build_maps_loop(cards_data, i, m) ==
    IF i > Len(cards_data) THEN m
    ELSE build_maps_loop(cards_data, i + 1, build_maps_record(m, cards_data[i]))

_build_maps(cards_data) == build_maps_loop(cards_data, 1, EmptyMaps)

\* A catalog record; the optional fields carry the defaults of card.get.
Card(name, colors, rarity, land) ==
    [name |-> name, color_identity |-> colors, rarity |-> rarity,
     is_basic_land |-> land]

\* The catalogs a DraftEnv is constructed on: one whose pools fill a pack,
\* one without basic lands, one with no records.
FullCatalog ==
    <<Card("Plains", <<"W">>, "common", TRUE),
      Card("Island", <<"U">>, "common", TRUE),
      Card("Bear", <<"G">>, "common", FALSE),
      Card("Elf", <<"G">>, "Common", FALSE),
      Card("Drake", <<"U">>, "uncommon", FALSE),
      Card("Golem", <<>>, "uncommon", FALSE),
      Card("Angel", <<"W">>, "rare", FALSE),
      Card("Hydra", <<"G", "U">>, "mythic", FALSE)>>

NoLandCatalog ==
    <<Card("Bear", <<"G">>, "common", FALSE),
      Card("Elf", <<"G">>, "common", FALSE),
      Card("Drake", <<"U">>, "uncommon", FALSE),
      Card("Golem", <<>>, "uncommon", FALSE),
      Card("Angel", <<"W">>, "rare", FALSE),
      Card("Token", <<>>, "special", FALSE)>>

EmptyCatalog == <<>>

Catalogs == {FullCatalog, NoLandCatalog, EmptyCatalog}

---------------------------------------------------------------------------
(* DraftEnv.__init__: the instance right after construction.  Until reset  *)
(* runs, the attributes all_packs_by_round and pack_holder do not exist    *)
(* (started = FALSE) and a step or a view raises AttributeError.           *)

NoBasicLands == [c \in {Colors[i] : i \in 1..Len(Colors)} |-> None]

NewEnv(cards_data) ==
    LET m == _build_maps(cards_data)
    IN  [rarity_pools |-> m.rarity_pools,
         card_color_identity |-> m.card_color_identity,
         num_cards_total |-> Cardinality(DOMAIN m.card_id_map),
         user_picks |-> <<>>,
         basic_land_ids |-> NoBasicLands,
         round_idx |-> 0,
         pick_idx |-> 0,
         done_drafting |-> FALSE,
         started |-> FALSE,
         all_packs_by_round |-> <<>>,
         pack_holder |-> <<>>]

---------------------------------------------------------------------------
(* Pack Generator: DraftEnv.make_pack.  <<pack, generator state>>.         *)

RECURSIVE PadPack(_)
PadPack(pack_ids) ==
    IF Len(pack_ids) < cards_per_pack THEN PadPack(Append(pack_ids, None))
    ELSE pack_ids

\* 1 basic land, if the pool has one
add_basic_land(pools, p) ==
    IF pools.basic_land # <<>> THEN append_choice(p, pools.basic_land) ELSE p

\* `count` cards of the pool sampled without replacement, or the whole pool
\* when it is smaller
add_from_pool(pool, count, p) ==
    IF Len(pool) >= count THEN extend_sample(p, pool, Len(pool), 0, count)
    ELSE Only({<<q[1] \o pool, q[2]>> : q \in {p}})

\* 1 rare/mythic, if the two pools together have one
add_rare_or_mythic(pools, p) ==
    IF pools.rare \o pools.mythic # <<>>
    THEN append_choice(p, pools.rare \o pools.mythic)
    ELSE p

fit_pack_unpadded(p) == p

\* Ensure length = cards_per_pack
fit_pack(p) ==
    Only({<<PadPack(SubSeq(q[1], 1, Min(Len(q[1]), cards_per_pack))), q[2]>>
          : q \in {p}})

make_pack(pools, r) ==
    fit_pack(
        add_rare_or_mythic(pools,
            add_from_pool(pools.uncommon, UncommonsPerPack,
                add_from_pool(pools.common, CommonsPerPack,
                    add_basic_land(pools, <<<<>>, r>>)))))

\* round_packs = [self.make_pack() for __ in range(self.num_players)]
RECURSIVE make_round(_, _, _)
make_round(pools, round_packs, r) ==
    IF Len(round_packs) = num_players THEN <<round_packs, r>>
    ELSE Only({make_round(pools, Append(v[1], v[2][1]), v[2][2])
               : v \in {<<round_packs, make_pack(pools, r)>>}})

\* for _ in range(self.num_packs): self.all_packs_by_round.append(round_packs)
RECURSIVE make_all_packs(_, _, _)
make_all_packs(pools, all_packs, r) ==
    IF Len(all_packs) = num_packs THEN <<all_packs, r>>
    ELSE Only({make_all_packs(pools, Append(v[1], v[2][1]), v[2][2])
               : v \in {<<all_packs, make_round(pools, <<>>, r)>>}})

\* DraftEnv._populate_basic_land_ids: later lands of a color overwrite.
RECURSIVE populate_loop(_, _, _, _)
populate_loop(lands, i, colors, ids) ==
    IF i > Len(lands) THEN ids
    ELSE LET ci == colors[lands[i]]
         IN  populate_loop(lands, i + 1, colors,
                 IF Len(ci) = 1 /\ ci[1] \in DOMAIN ids
                 THEN [ids EXCEPT ![ci[1]] = lands[i]]
                 ELSE ids)

_populate_basic_land_ids(e) ==
    populate_loop(e.rarity_pools.basic_land, 1, e.card_color_identity,
                  e.basic_land_ids)

\* pack_holder = list(range(self.num_players)): seat i holds pack i
IdentityHolder == [s \in 1..num_players |-> s - 1]

reset_fields_keep_picks(e, p) ==
    <<[e EXCEPT !.round_idx = 0,
                !.pick_idx = 0,
                !.done_drafting = FALSE,
                !.started = TRUE,
                !.all_packs_by_round = p[1],
                !.pack_holder = IdentityHolder,
                !.basic_land_ids = _populate_basic_land_ids(e)],
      p[2]>>

\* The assignments of reset, given p = <<the packs built, generator state>>
reset_fields(e, p) ==
    <<[e EXCEPT !.round_idx = 0,
                !.pick_idx = 0,
                !.done_drafting = FALSE,
                !.user_picks = <<>>,
                !.started = TRUE,
                !.all_packs_by_round = p[1],
                !.pack_holder = IdentityHolder,
                !.basic_land_ids = _populate_basic_land_ids(e)],
      p[2]>>

\* DraftEnv.reset(seed): <<instance afterwards, generator state afterwards>>
reset(e, r, seed) ==
    Only({reset_fields(e, p)
          : p \in {make_all_packs(e.rarity_pools, <<>>, random_seed(r, seed))}})

---------------------------------------------------------------------------
(* Observation/Action Codec: views over an instance that reset has set up. *)

\* The pack seat 0 holds: all_packs_by_round[round_idx][pack_holder[0]]
CurrentPack(e) == e.all_packs_by_round[e.round_idx + 1][e.pack_holder[1] + 1]

get_mask_inverted(e) ==
    IF e.done_drafting THEN [i \in 1..cards_per_pack |-> FALSE]
    ELSE [i \in 1..Len(CurrentPack(e)) |-> CurrentPack(e)[i] = None]

\* DraftEnv.get_mask, entry i + 1 for slot i
get_mask(e) ==
    IF e.done_drafting THEN [i \in 1..cards_per_pack |-> FALSE]
    ELSE [i \in 1..Len(CurrentPack(e)) |-> CurrentPack(e)[i] # None]

_build_observation_shifted(e) ==
    [row \in 0..(ObsRows - 1) |->
        [col \in 0..(e.num_cards_total - 1) |->
            IF \/ /\ row < Len(e.user_picks)
                  /\ row < PickRows
                  /\ e.user_picks[row + 1] = col
               \/ /\ ~e.done_drafting
                  /\ row > PickRows
                  /\ row - PickRows < Len(CurrentPack(e))
                  /\ row < ObsRows
                  /\ CurrentPack(e)[row - PickRows + 1] = col
            THEN 1 ELSE 0]]

\* DraftEnv._build_observation: obs[row][column] in {0, 1}, rows and
\* columns counted from 0 as in the source.
_build_observation(e) ==
    [row \in 0..(ObsRows - 1) |->
        [col \in 0..(e.num_cards_total - 1) |->
            IF \/ /\ row < Len(e.user_picks)
                  /\ row < PickRows
                  /\ e.user_picks[row + 1] = col
               \/ /\ ~e.done_drafting
                  /\ row >= PickRows
                  /\ row - PickRows < Len(CurrentPack(e))
                  /\ row < ObsRows
                  /\ CurrentPack(e)[row - PickRows + 1] = col
            THEN 1 ELSE 0]]

---------------------------------------------------------------------------
(* Deck Assembler: DraftEnv.build_deck with its default arguments.         *)

Repeat(x, n) == [i \in 1..n |-> x]

\* int(round(c_count / total_colors * land_count)): round-half-to-even of
\* the double product.  The product is computed in binary floating point;
\* for land_count = 27 it differs from the exact quotient's rounding only
\* where c_count / total_colors = 29/54, which the doubles round up.
Portion(c_count, total_colors) ==
    LET n == c_count * land_count
        q == n \div total_colors
        rem == n % total_colors
    IN  IF land_count = 27 /\ 54 * c_count = 29 * total_colors THEN 15
        ELSE IF 2 * rem < total_colors THEN q
        ELSE IF 2 * rem > total_colors THEN q + 1
        ELSE IF q % 2 = 0 THEN q ELSE q + 1

\* color_counts[c]: one per occurrence of c in the identities of main_deck
ColorCount(e, main_deck, c) ==
    Cardinality({ij \in (1..Len(main_deck)) \X (1..Len(Colors)) :
        /\ main_deck[ij[1]] \in DOMAIN e.card_color_identity
        /\ ij[2] <= Len(e.card_color_identity[main_deck[ij[1]]])
        /\ e.card_color_identity[main_deck[ij[1]]][ij[2]] = c})

RECURSIVE SumCounts(_, _)
SumCounts(counts, i) ==
    IF i > Len(Colors) THEN 0 ELSE counts[Colors[i]] + SumCounts(counts, i + 1)

\* for c_symbol, c_count in color_counts.items(): <<land_ids, used>>
RECURSIVE allocate_loop(_, _, _, _, _)
allocate_loop(e, counts, total, i, acc) ==
    IF i > Len(Colors) THEN acc
    ELSE LET c == Colors[i]
             portion == Portion(counts[c], total)
         IN  allocate_loop(e, counts, total, i + 1,
                 IF e.basic_land_ids[c] # None
                 THEN <<acc[1] \o Repeat(e.basic_land_ids[c], portion), acc[2] + portion>>
                 ELSE acc)

\* max(color_counts, key=color_counts.get): the first color of maximal tally
TopColor(counts) ==
    LET best == CHOOSE i \in 1..Len(Colors) :
                    /\ \A j \in 1..Len(Colors) : counts[Colors[j]] <= counts[Colors[i]]
                    /\ \A j \in 1..(i - 1) : counts[Colors[j]] < counts[Colors[i]]
    IN  Colors[best]

build_deck(e) ==
    LET main_deck == SubSeq(e.user_picks, 1, Min(main_count, Len(e.user_picks)))
        counts == [c \in DOMAIN e.basic_land_ids |-> ColorCount(e, main_deck, c)]
        total_colors == SumCounts(counts, 1)
        alloc == allocate_loop(e, counts, total_colors, 1, <<<<>>, 0>>)
        diff == land_count - alloc[2]
        top == e.basic_land_ids[TopColor(counts)]
        \* `a or b` takes b when a is None and also when a is the identity 0
        top_land_id == IF top = None \/ top = 0 THEN e.basic_land_ids["U"] ELSE top
    IN  IF total_colors = 0
        THEN main_deck \o Repeat(e.basic_land_ids["U"], land_count)
        ELSE IF diff > 0
             THEN main_deck \o alloc[1] \o Repeat(top_land_id, diff)
             ELSE main_deck \o alloc[1]

---------------------------------------------------------------------------
(* Draft Table State Machine: DraftEnv.step.                               *)

InvalidAction_range_only(e, action) ==
    action < 0 \/ action >= cards_per_pack

\* Validate action: out of range, or an empty slot of seat 0's pack
InvalidAction(e, action) ==
    \/ action < 0
    \/ action >= cards_per_pack
    \/ CurrentPack(e)[action + 1] = None

user_pick_keep(e, action) ==
    [e EXCEPT !.user_picks = Append(@, CurrentPack(e)[action + 1])]

\* 1) User picks card: append it to user_picks, empty the slot
user_pick(e, action) ==
    [e EXCEPT !.user_picks = Append(@, CurrentPack(e)[action + 1]),
              !.all_packs_by_round[e.round_idx + 1][e.pack_holder[1] + 1][action + 1] = None]

\* valid_slots = [i for i, c in enumerate(pack_cards) if c is not None]
valid_slots(pack_cards) ==
    SelectSeq([i \in 1..Len(pack_cards) |-> i - 1],
              LAMBDA i : pack_cards[i + 1] # None)

\* 2) Other seats pick randomly from their pack, seat after seat:
others_pick_none(round_packs, holder, seat, r) == <<round_packs, r>>

\* <<packs of the round, generator state>>
RECURSIVE others_pick(_, _, _, _)
others_pick(round_packs, holder, seat, r) ==
    IF seat >= num_players THEN <<round_packs, r>>
    ELSE Only({(IF v[3] # <<>>
                THEN others_pick(
                         [v[1] EXCEPT ![holder[seat + 1] + 1][random_choice(v[3], v[2])[1] + 1] = None],
                         holder, seat + 1, random_choice(v[3], v[2])[2])
                ELSE others_pick(v[1], holder, seat + 1, v[2]))
               : v \in {<<round_packs, r,
                          valid_slots(round_packs[holder[seat + 1] + 1])>>}})

pass_right_stay(pack_holder) == pack_holder

\* 3) Pass all packs to the right: new_holder[(seat + 1) % n] = pack_holder[seat]
pass_right(pack_holder) ==
    [s \in 1..num_players |-> pack_holder[((s - 2) % num_players) + 1]]

advance_no_wrap(e) ==
    LET picked == e.pick_idx + 1
        round_over == picked >= cards_per_pack
        round == IF round_over THEN e.round_idx + 1 ELSE e.round_idx
    IN  [e EXCEPT !.pick_idx = picked,
                  !.round_idx = round,
                  !.pack_holder = IF round_over /\ round < num_packs
                                  THEN IdentityHolder ELSE @,
                  !.done_drafting = round >= num_packs]

advance_early(e) ==
    LET picked == e.pick_idx + 1
        round_over == picked >= cards_per_pack
        round == IF round_over THEN e.round_idx + 1 ELSE e.round_idx
    IN  [e EXCEPT !.pick_idx = IF round_over THEN 0 ELSE picked,
                  !.round_idx = round,
                  !.pack_holder = IF round_over /\ round < num_packs
                                  THEN IdentityHolder ELSE @,
                  !.done_drafting = round >= num_packs - 1]

\* 4) Advance pick index, 5) check if all rounds are done
advance(e) ==
    LET picked == e.pick_idx + 1
        round_over == picked >= cards_per_pack
        round == IF round_over THEN e.round_idx + 1 ELSE e.round_idx
    IN  [e EXCEPT !.pick_idx = IF round_over THEN 0 ELSE picked,
                  !.round_idx = round,
                  !.pack_holder = IF round_over /\ round < num_packs
                                  THEN IdentityHolder ELSE @,
                  !.done_drafting = round >= num_packs]

\* The body of step past the done_drafting test, up to the check of
\* round_idx against num_packs.  outcome: "raised" (no reset yet: reading
\* pack_holder raises AttributeError), "rejected" (invalid action),
\* "accepted".
step_live(e, r, action) ==
    IF ~e.started
    THEN [env |-> e, rng |-> r, outcome |-> "raised"]
    ELSE IF InvalidAction(e, action)
    THEN [env |-> e, rng |-> r, outcome |-> "rejected"]
    ELSE Only({Only({[env |-> advance([e1 EXCEPT !.all_packs_by_round[e1.round_idx + 1] = o[1],
                                                 !.pack_holder = pass_right(@)]),
                      rng |-> o[2],
                      outcome |-> "accepted"]
                     : o \in {others_pick(e1.all_packs_by_round[e1.round_idx + 1],
                                          e1.pack_holder, 1, r)}})
               : e1 \in {user_pick(e, action)}})

step_unguarded(e, r, action) ==
    IF e.done_drafting
    THEN [env |-> e, rng |-> r, outcome |-> "raised"]
    ELSE step_live(e, r, action)

\* outcome "finished": the draft was already done, nothing is touched
step(e, r, action) ==
    IF e.done_drafting
    THEN [env |-> e, rng |-> r, outcome |-> "finished"]
    ELSE step_live(e, r, action)

\* decks = ["DM_mdr.dck", "adventurer.dck"]: one match per opponent deck
NumOpponents == 2

\* What the end of the last accepted step can come to, once build_deck has
\* run and test_in_parralell got its deck: saving the deck raises (KeyError
\* for an identity that is None, or the file system refuses), a match of
\* the external arbiter raises, or every match returns and `wins` of them
\* are won.
ArbiterOutcomes(deck) ==
    {[result |-> "raised", matches |-> 0, wins |-> 0]}
    \cup IF \E i \in 1..Len(deck) : deck[i] = None THEN {}
         ELSE {[result |-> "raised", matches |-> NumOpponents, wins |-> 0]}
              \cup {[result |-> "returned", matches |-> NumOpponents, wins |-> w] :
                        w \in 0..NumOpponents}

---------------------------------------------------------------------------
(* One instance driven by a caller: calls of reset and step in any order.  *)

Seeds == 0..MaxSeed
Actions == (-1)..cards_per_pack

\* The part of an instance a call starts from, kept with the call's record
Snapshot(e) ==
    [started |-> e.started, round_idx |-> e.round_idx, pick_idx |-> e.pick_idx,
     done_drafting |-> e.done_drafting, n_picks |-> Len(e.user_picks)]

\* reward is the pair <<numerator, denominator>>; arity the length of the
\* returned tuple; accepted counts the picks applied since the last reset.
NoCall ==
    [op |-> "init", arg |-> None, result |-> "returned", reward |-> <<0, 1>>,
     done |-> FALSE, arity |-> 0, deck_built |-> FALSE, matches |-> 0,
     accepted |-> 0, pre |-> Snapshot(NewEnv(<<>>))]

\* Instances that a specification does not run
Absent == [started |-> FALSE]

Init ==
    /\ \E cards_data \in Catalogs : env = NewEnv(cards_data)
    /\ random_state \in 0..(RngModulus - 1)
    /\ call = NoCall
    /\ env2 = Absent
    /\ calls2 = 0
    /\ ref = Absent
    /\ ref_random = 0

\* The record of a call of reset(seed) made in state `before`
ResetReturn(seed, before) ==
    [NoCall EXCEPT !.op = "reset", !.arg = seed, !.arity = 2,
                   !.pre = Snapshot(before)]

\* The record of step(action) for the outcome s of step's body, before the
\* deck is built
StepReturn(s, action, before) ==
    [op |-> "step", arg |-> action, pre |-> Snapshot(before),
     result |-> IF s.outcome = "raised" THEN "raised" ELSE "returned",
     reward |-> IF s.outcome = "rejected" THEN <<-1, 1>> ELSE <<0, 1>>,
     done |-> s.env.done_drafting,
     arity |-> CASE s.outcome = "raised" -> 0
                 [] s.outcome = "accepted" -> 5
                 [] OTHER -> 4,
     deck_built |-> FALSE, matches |-> 0,
     accepted |-> IF s.outcome = "accepted" THEN call.accepted + 1 ELSE call.accepted]

\* The record of the accepted step that ends the last round: it goes on to
\* build_deck and test_in_parralell, and returns wins / length as reward
\* or raises.
FinalReturn(ret, a) ==
    [ret EXCEPT !.result = a.result,
                !.deck_built = TRUE,
                !.matches = a.matches,
                !.arity = IF a.result = "raised" THEN 0 ELSE 5,
                !.reward = IF a.result = "raised" THEN <<0, 1>>
                           ELSE <<a.wins, NumOpponents>>]

\* The records step(action) can leave, s being the outcome of its body
StepCalls(s, action, before) ==
    IF s.outcome = "accepted" /\ s.env.done_drafting
    THEN {FinalReturn(StepReturn(s, action, before), a) :
              a \in ArbiterOutcomes(build_deck(s.env))}
    ELSE {StepReturn(s, action, before)}

\* env.reset(seed), seed = None for a call without seed
Reset(seed) ==
    \E s \in {reset(env, random_state, seed)} :
        /\ env' = s[1]
        /\ random_state' = s[2]
        /\ call' = ResetReturn(seed, env)
        /\ UNCHANGED <<env2, calls2, ref, ref_random>>

\* env.step(action)
Step(action) ==
    \E s \in {step(env, random_state, action)} :
        /\ env' = s.env
        /\ random_state' = s.rng
        /\ call' \in StepCalls(s, action, env)
        /\ UNCHANGED <<env2, calls2, ref, ref_random>>

Next ==
    \/ \E seed \in Seeds \cup {None} : Reset(seed)
    \/ \E action \in Actions : Step(action)

Spec == Init /\ [][Next]_vars

---------------------------------------------------------------------------
(* Two runs of the same calls: env in its process, ref on its own in       *)
(* another process, each process with its own generator in whatever state  *)
(* it is.  Every call is made on both with the same argument.              *)

InitRepro ==
    /\ \E cards_data \in Catalogs : env = NewEnv(cards_data) /\ ref = NewEnv(cards_data)
    /\ random_state \in 0..(RngModulus - 1)
    /\ ref_random \in 0..(RngModulus - 1)
    /\ call = NoCall
    /\ env2 = Absent
    /\ calls2 = 0

BothReset(seed) ==
    \E s \in {reset(env, random_state, seed)}, t \in {reset(ref, ref_random, seed)} :
        /\ env' = s[1]
        /\ random_state' = s[2]
        /\ ref' = t[1]
        /\ ref_random' = t[2]
        /\ call' = ResetReturn(seed, env)
        /\ UNCHANGED <<env2, calls2>>

BothStep(action) ==
    \E s \in {step(env, random_state, action)}, t \in {step(ref, ref_random, action)} :
        /\ env' = s.env
        /\ random_state' = s.rng
        /\ ref' = t.env
        /\ ref_random' = t.rng
        /\ call' \in StepCalls(s, action, env)
        /\ UNCHANGED <<env2, calls2>>

NextRepro ==
    \/ \E seed \in Seeds : BothReset(seed)
    \/ \E action \in Actions : BothStep(action)

SpecRepro == InitRepro /\ [][NextRepro]_vars

---------------------------------------------------------------------------
(* The same two runs, with a second instance env2 in env's process: its    *)
(* calls interleave with env's and draw from the same module-level         *)
(* generator.  The caller of env and ref is the loop of test.py, which     *)
(* submits the last slot the mask allows.                                  *)

InitShared ==
    /\ \E cards_data \in Catalogs :
          env = NewEnv(cards_data) /\ ref = NewEnv(cards_data) /\ env2 = NewEnv(cards_data)
    /\ random_state \in 0..(RngModulus - 1)
    /\ ref_random \in 0..(RngModulus - 1)
    /\ call = NoCall
    /\ calls2 = 0

\* for b in range(len(mask)): if mask[b] == True: action = b
LastAllowed(mask) ==
    CHOOSE b \in 0..(Len(mask) - 1) :
        mask[b + 1] /\ \A c \in (b + 1)..(Len(mask) - 1) : ~mask[c + 1]

MainStep ==
    /\ env.started
    /\ \E b \in 1..cards_per_pack : get_mask(env)[b]
    /\ BothStep(LastAllowed(get_mask(env)))

\* env2.reset(seed)
Reset2(seed) ==
    /\ calls2 < MaxCalls2
    /\ \E s \in {reset(env2, random_state, seed)} :
          env2' = s[1] /\ random_state' = s[2]
    /\ calls2' = calls2 + 1
    /\ UNCHANGED <<env, call, ref, ref_random>>

\* env2.step(action)
Step2(action) ==
    /\ calls2 < MaxCalls2
    /\ \E s \in {step(env2, random_state, action)} :
          env2' = s.env /\ random_state' = s.rng
    /\ calls2' = calls2 + 1
    /\ UNCHANGED <<env, call, ref, ref_random>>

NextShared ==
    \/ \E seed \in Seeds : BothReset(seed)
    \/ MainStep
    \/ \E seed \in Seeds \cup {None} : Reset2(seed)
    \/ \E action \in Actions : Step2(action)

SpecShared == InitShared /\ [][NextShared]_vars

---------------------------------------------------------------------------
(* Properties of one instance (Spec).                                      *)

\* The pick of a call was applied: one more accepted pick than before
Applied == call'.accepted = call.accepted + 1

\* C1: in a state awaiting an action, a step whose action is out of range
\* (slot < 0 or slot >= cards_per_pack) or names an empty slot of seat 0's
\* current pack returns the rejection outcome (reward -1, not terminal) and
\* leaves the whole instance unchanged: round index, pick index, seat->pack
\* mapping, every pack and the pick history.
C1_InvalidActionLeavesState ==
    [][(/\ env.started
        /\ ~env.done_drafting
        /\ call'.op = "step"
        /\ \/ call'.arg < 0
           \/ call'.arg >= cards_per_pack
           \/ CurrentPack(env)[call'.arg + 1] = None)
       => /\ call'.result = "returned"
          /\ call'.reward = <<-1, 1>>
          /\ ~call'.done
          /\ env' = env
          /\ ~Applied]_vars

\* C1 witness: mid-draft, the last call was a step on an in-range slot that
\* is empty, and it was rejected.
C1_Witness ==
    /\ env.started
    /\ ~env.done_drafting
    /\ call.op = "step"
    /\ call.arg \in 0..(cards_per_pack - 1)
    /\ CurrentPack(env)[call.arg + 1] = None
    /\ call.reward = <<-1, 1>>
    /\ Len(env.user_picks) > 0

\* C2: after exactly num_packs * cards_per_pack accepted actions since the
\* reset the table is terminal and the pick history has that many entries;
\* after fewer accepted actions it is not terminal.
C2_TerminalAfterAllPicks ==
    env.started =>
        /\ call.accepted = num_packs * cards_per_pack
              => env.done_drafting /\ Len(env.user_picks) = num_packs * cards_per_pack
        /\ call.accepted < num_packs * cards_per_pack => ~env.done_drafting

\* C2 witness: a draft that started from full packs took all its picks.
C2_Witness ==
    /\ env.started
    /\ call.accepted = num_packs * cards_per_pack
    /\ env.done_drafting
    /\ \A i \in 1..Len(env.user_picks) : env.user_picks[i] # None

\* C3 (as claimed): in every state awaiting an action, seat 0's current
\* pack has at least one non-empty slot, for every catalog with cards, also
\* one whose pools are too small to fill all slots of a pack.
C3_AlwaysACardToPick ==
    (env.started /\ ~env.done_drafting /\ env.num_cards_total > 0)
        => \E i \in 1..cards_per_pack : CurrentPack(env)[i] # None

\* C4: a step on a table that is already terminal is not accepted (it
\* returns the 4-tuple with done = True, not the accepted step's return),
\* for any action value, and leaves the pick history, the counters, the
\* seat->pack mapping and all packs unchanged.
C4_StepOnTerminalIsNoOp ==
    [][(env.done_drafting /\ call'.op = "step")
       => /\ call'.result = "returned"
          /\ call'.done
          /\ call'.arity = 4
          /\ ~Applied
          /\ env' = env
          /\ env'.done_drafting]_vars

\* C4 witness: a step was called on a terminal table holding the full
\* pick history.
C4_Witness ==
    /\ call.op = "step"
    /\ call.pre.done_drafting
    /\ env.done_drafting
    /\ Len(env.user_picks) = num_packs * cards_per_pack

\* C5 (as claimed): no call of step builds a deck or runs a match of the
\* external arbiter, the step that makes the table terminal included.
C5_StepRunsNoDeckAssembly ==
    ~call.deck_built /\ call.matches = 0

\* C8: whatever state reset is called in, afterwards round index and pick
\* index are 0, the table is not terminal, the pick history is empty, seat
\* i holds pack i, and there are num_packs rounds of num_players packs of
\* cards_per_pack slots, each pack as the generator makes it (no slot of an
\* earlier draft picked out of it).
C8_ResetReplacesState ==
    call.op = "reset" =>
        /\ env.started
        /\ env.round_idx = 0
        /\ env.pick_idx = 0
        /\ ~env.done_drafting
        /\ env.user_picks = <<>>
        /\ call.accepted = 0
        /\ DOMAIN env.pack_holder = 1..num_players
        /\ \A seat \in 1..num_players : env.pack_holder[seat] = seat - 1
        /\ Len(env.all_packs_by_round) = num_packs
        /\ \A rd \in 1..num_packs :
              /\ Len(env.all_packs_by_round[rd]) = num_players
              /\ \A pk \in 1..num_players :
                    /\ Len(env.all_packs_by_round[rd][pk]) = cards_per_pack
                    /\ \E r \in 0..(RngModulus - 1) :
                          env.all_packs_by_round[rd][pk] = make_pack(env.rarity_pools, r)[1]

\* C8 witness: reset was called on a terminal table with a full history.
C8_Witness ==
    /\ call.op = "reset"
    /\ call.pre.done_drafting
    /\ call.pre.n_picks = num_packs * cards_per_pack
    /\ env.user_picks = <<>>

\* Number of true entries of a mask, of non-empty slots of a pack
TrueCount(mask) == Cardinality({i \in DOMAIN mask : mask[i]})
FilledCount(pack) == Cardinality({i \in DOMAIN pack : pack[i] # None})

\* C9: once reset has run, get_mask has cards_per_pack entries; on a table
\* awaiting an action they are true exactly at the non-empty slots of seat
\* 0's current pack (as many true entries as non-empty slots), on a terminal
\* table they are all false; and step applies the pick of a slot if and only
\* if the slot is in range and the mask is true there.
C9_MaskMatchesPack ==
    /\ [](env.started =>
            /\ DOMAIN get_mask(env) = 1..cards_per_pack
            /\ IF env.done_drafting
               THEN \A i \in 1..cards_per_pack : ~get_mask(env)[i]
               ELSE /\ \A i \in 1..cards_per_pack :
                          get_mask(env)[i] <=> CurrentPack(env)[i] # None
                    /\ TrueCount(get_mask(env)) = FilledCount(CurrentPack(env)))
    /\ [][(env.started /\ call'.op = "step")
          => (Applied <=> /\ call'.arg \in 0..(cards_per_pack - 1)
                          /\ get_mask(env)[call'.arg + 1])]_vars

\* C9 witness: an accepted step left seat 0 with a pack that has both
\* empty and non-empty slots.
C9_Witness ==
    /\ env.started
    /\ ~env.done_drafting
    /\ call.op = "step"
    /\ call.arity = 5
    /\ \E i, j \in 1..cards_per_pack : get_mask(env)[i] /\ ~get_mask(env)[j]

\* Row `row` of an observation has its one set bit at column `col`
OneHot(obs, row, col) ==
    \A c \in DOMAIN obs[row] : obs[row][c] = IF c = col THEN 1 ELSE 0

\* Row `row` of an observation is all zero
ZeroRow(obs, row) == \A c \in DOMAIN obs[row] : obs[row][c] = 0

\* C10: once reset has run, the observation has num_packs * cards_per_pack
\* + cards_per_pack rows of num_cards_total columns; row i below the length
\* of the pick history has exactly one set bit, at the i-th picked identity;
\* the rows from there up to the history's capacity are all zero; row
\* capacity + j has exactly one set bit at the identity in slot j of seat
\* 0's current pack, or is all zero when the slot is empty; on a terminal
\* table all the trailing rows are zero.
C10_ObservationEncoding ==
    env.started =>
        LET obs == _build_observation(env)
            cap == num_packs * cards_per_pack
        IN  /\ DOMAIN obs = 0..(cap + cards_per_pack - 1)
            /\ \A row \in DOMAIN obs : DOMAIN obs[row] = 0..(env.num_cards_total - 1)
            /\ \A i \in 0..(cap - 1) :
                  IF i < Len(env.user_picks)
                  THEN /\ env.user_picks[i + 1] \in DOMAIN obs[i]
                       /\ OneHot(obs, i, env.user_picks[i + 1])
                  ELSE ZeroRow(obs, i)
            /\ \A j \in 0..(cards_per_pack - 1) :
                  IF env.done_drafting THEN ZeroRow(obs, cap + j)
                  ELSE IF CurrentPack(env)[j + 1] = None THEN ZeroRow(obs, cap + j)
                  ELSE /\ CurrentPack(env)[j + 1] \in DOMAIN obs[cap + j]
                       /\ OneHot(obs, cap + j, CurrentPack(env)[j + 1])

\* C10 witness: mid-draft with picks in the history, a card in slot 0 and
\* an empty slot in seat 0's current pack.
C10_Witness ==
    /\ env.started
    /\ ~env.done_drafting
    /\ Len(env.user_picks) >= 2
    /\ CurrentPack(env)[1] # None
    /\ \E j \in 1..cards_per_pack : CurrentPack(env)[j] = None

---------------------------------------------------------------------------
(* Properties of two runs (SpecRepro, SpecShared).                         *)

\* What a run shows: the packs, who holds which, the history, the counters
\* and the observation
Shown(e) ==
    <<e.all_packs_by_round, e.pack_holder, e.user_picks, e.round_idx, e.pick_idx,
      e.done_drafting, _build_observation(e)>>

\* C6: two runs that call reset(seed) and then the same actions have the
\* same packs, the same other-seat picks (the same slots emptied in every
\* pack) and the same observation after every call, whatever state the
\* generators of their processes were in before.
C6_SameSeedSameDraft ==
    ref.started => Shown(env) = Shown(ref)

\* C6 witness: both runs are past a reset and two accepted steps, so the
\* other seat has picked twice.
C6_Witness ==
    /\ ref.started
    /\ env.started
    /\ Len(ref.user_picks) >= 2
    /\ call.op = "step"

---------------------------------------------------------------------------
(* Properties of the packs over a draft (Spec).                            *)

\* The number of slots make_pack fills from pools before padding
NominalFill(pools) ==
    Min(1, Len(pools.basic_land)) + Min(CommonsPerPack, Len(pools.common))
        + Min(UncommonsPerPack, Len(pools.uncommon))
        + Min(1, Len(pools.rare) + Len(pools.mythic))

\* C11: when packs are generated full (cards_per_pack cards each), after k
\* accepted turns of a round every pack of that round has exactly
\* cards_per_pack - k non-empty slots; every pack of a finished round is
\* empty and every pack of a round not yet begun is full.
C11_PackCountsDown ==
    (env.started /\ NominalFill(env.rarity_pools) >= cards_per_pack) =>
        \A rd \in 1..num_packs : \A pk \in 1..num_players :
            FilledCount(env.all_packs_by_round[rd][pk]) =
                IF rd - 1 < env.round_idx THEN 0
                ELSE IF rd - 1 = env.round_idx THEN cards_per_pack - env.pick_idx
                ELSE cards_per_pack

\* C11 witness: full packs, the first round finished, two turns into the
\* second.
C11_Witness ==
    /\ env.started
    /\ NominalFill(env.rarity_pools) >= cards_per_pack
    /\ env.round_idx = 1
    /\ env.pick_idx = 2
    /\ \A pk \in 1..num_players : FilledCount(env.all_packs_by_round[1][pk]) = 0

---------------------------------------------------------------------------
(* The catalog index and the pack generator on their own: a catalog is     *)
(* loaded (the records of the json file), DraftEnv is constructed on it,   *)
(* and one operation is applied to the instance, the generator being in    *)
(* whatever state r it is.                                                 *)

\* The records a catalog file is made of: a basic land, spells of two names
\* in several rarity labels (one in capitals, one that names no pool), and
\* a record that lacks the "name" key.
CatalogRecords ==
    {Card("Plains", <<"W">>, "common", TRUE)}
    \cup {Card(n, IF n = "Bear" THEN <<"G">> ELSE <<"G", "U">>, rar, FALSE) :
             n \in {"Bear", "Elf"}, rar \in {"common", "Uncommon", "rare", "special"}}
    \cup {[color_identity |-> <<>>, rarity |-> "common", is_basic_land |-> FALSE]}

CatalogInputs == UNION {[1..n -> CatalogRecords] : n \in 0..MaxRecords}

\* card["name"] raises KeyError on a record without the key
HasName(card) == "name" \in DOMAIN card

\* DraftEnv(json_path): the outcome of the constructor on cards_data
construct(cards_data) ==
    IF \E i \in 1..Len(cards_data) : ~HasName(cards_data[i])
    THEN [result |-> "KeyError", env |-> Absent, maps |-> EmptyMaps]
    ELSE [result |-> "returned", env |-> NewEnv(cards_data),
          maps |-> _build_maps(cards_data)]

\* The last call of this specification: the catalog it was made on, what
\* the constructor built, the pack (or part of a pack) a generator call made
Loaded(cards_data) ==
    [op |-> "load", cards_data |-> cards_data, result |-> "returned",
     maps |-> EmptyMaps, arg |-> None, pack |-> <<>>]

InitCatalog ==
    /\ \E cards_data \in CatalogInputs : call = Loaded(cards_data)
    /\ env = Absent
    /\ random_state = 0
    /\ env2 = Absent
    /\ calls2 = 0
    /\ ref = Absent
    /\ ref_random = 0

\* env = DraftEnv()
Construct ==
    /\ call.op = "load"
    /\ \E c \in {construct(call.cards_data)} :
          /\ env' = c.env
          /\ call' = [call EXCEPT !.op = "__init__", !.result = c.result,
                                  !.maps = c.maps]
    /\ UNCHANGED <<random_state, env2, calls2, ref, ref_random>>

Constructed == call.op = "__init__" /\ call.result = "returned"

\* env.make_pack(), the generator in state r
MakePack(r) ==
    /\ Constructed
    /\ call' = [call EXCEPT !.op = "make_pack",
                            !.pack = make_pack(env.rarity_pools, r)[1]]
    /\ UNCHANGED <<env, random_state, env2, calls2, ref, ref_random>>

\* The draw of one rarity class inside make_pack, the generator in state r:
\* `count` is the class's nominal count, 10 for commons and 3 for uncommons
\* in the source.
DrawClass(class, count, r) ==
    /\ Constructed
    /\ call' = [call EXCEPT !.op = "add_from_pool", !.arg = <<class, count>>,
                            !.pack = add_from_pool(env.rarity_pools[class], count,
                                                   <<<<>>, r>>)[1]]
    /\ UNCHANGED <<env, random_state, env2, calls2, ref, ref_random>>

\* env.reset(seed) on the constructed instance: a draft starts
StartDraft(seed) ==
    /\ Constructed
    /\ \E s \in {reset(env, random_state, seed)} :
          /\ env' = s[1]
          /\ random_state' = s[2]
    /\ call' = [call EXCEPT !.op = "reset", !.arg = seed]
    /\ UNCHANGED <<env2, calls2, ref, ref_random>>

NextCatalog ==
    \/ Construct
    \/ \E r \in 0..(RngModulus - 1) : MakePack(r)
    \/ \E class \in {"common", "uncommon"}, count \in 1..MaxCount,
          r \in 0..(RngModulus - 1) : DrawClass(class, count, r)
    \/ \E seed \in Seeds : StartDraft(seed)

SpecCatalog == InitCatalog /\ [][NextCatalog]_vars

\* C12: make_pack returns exactly cards_per_pack slots for every catalog;
\* as many slots are filled as the pools give (one basic land if there is
\* one, the nominal count of commons and of uncommons or the whole pool if
\* it is smaller, one rare or mythic if there is one, cut at
\* cards_per_pack), the filled slots come first and the rest hold the empty
\* marker.
C12_PackShape ==
    call.op = "make_pack" =>
        /\ Len(call.pack) = cards_per_pack
        /\ \A i \in 1..cards_per_pack :
              call.pack[i] # None
                  <=> i <= Min(cards_per_pack, NominalFill(env.rarity_pools))

\* C12 witness: a catalog without basic lands whose other pools suffice; the
\* pack has one slot fewer filled and the last slot empty.
C12_Witness ==
    /\ call.op = "make_pack"
    /\ env.rarity_pools.basic_land = <<>>
    /\ NominalFill(env.rarity_pools) = cards_per_pack - 1
    /\ call.pack[cards_per_pack] = None
    /\ \A i \in 1..(cards_per_pack - 1) : call.pack[i] # None

\* C13 (as claimed): the identities make_pack draws for one rarity class
\* are pairwise distinct, for every catalog, also one with repeated records
\* for a name and with pools smaller than the nominal count.
C13_NoDuplicateInClass ==
    call.op = "add_from_pool" =>
        \A i, j \in 1..Len(call.pack) : i # j => call.pack[i] # call.pack[j]

\* The number of places identity id has in the rarity pools
PoolPlaces(pools, id) ==
    Cardinality({pi \in (DOMAIN pools) \X (1..MaxRecords) :
                    pi[2] <= Len(pools[pi[1]]) /\ pools[pi[1]][pi[2]] = id})

\* A record that _build_maps puts into a pool: flagged as basic land, or
\* with a rarity label that names a pool
Pooled(card) ==
    card.is_basic_land \/ Lower(card.rarity) \in {"common", "uncommon", "rare", "mythic"}

\* C14 (as claimed): in the index built from any sequence of records every
\* identity is in exactly one rarity pool, once (in none if no record of
\* it is put into a pool), and the identity of a record flagged as basic
\* land is in none of common, uncommon, rare and mythic.
C14_EachIdentityInOnePool ==
    (call.op = "__init__" /\ call.result = "returned") =>
        /\ \A id \in DOMAIN call.maps.id_card_map :
              PoolPlaces(call.maps.rarity_pools, id) =
                  IF \E i \in 1..Len(call.cards_data) :
                         /\ call.maps.card_id_map[call.cards_data[i].name] = id
                         /\ Pooled(call.cards_data[i])
                  THEN 1 ELSE 0
        /\ \A i \in 1..Len(call.cards_data) :
              call.cards_data[i].is_basic_land =>
                  \A pool \in {"common", "uncommon", "rare", "mythic"} :
                      \A k \in 1..Len(call.maps.rarity_pools[pool]) :
                          call.maps.rarity_pools[pool][k]
                              # call.maps.card_id_map[call.cards_data[i].name]

\* The names of a catalog, the place of the first record of a name
NamesOf(cards_data) == {cards_data[i].name : i \in 1..Len(cards_data)}
FirstRecord(cards_data, n) ==
    CHOOSE i \in 1..Len(cards_data) :
        cards_data[i].name = n /\ \A j \in 1..(i - 1) : cards_data[j].name # n

\* C15: for any sequence of records, repeated names allowed, card_id_map
\* and id_card_map are inverse to each other: every name of the catalog has
\* one identity, the identities are 0..n-1 for n distinct names, in the
\* order in which the names first occur, and a repeated name adds none.
C15_NameIdentityBijection ==
    (call.op = "__init__" /\ call.result = "returned") =>
        LET m == call.maps
            names == NamesOf(call.cards_data)
        IN  /\ DOMAIN m.card_id_map = names
            /\ DOMAIN m.id_card_map = 0..(Cardinality(names) - 1)
            /\ \A n \in names : m.id_card_map[m.card_id_map[n]] = n
            /\ \A id \in DOMAIN m.id_card_map : m.card_id_map[m.id_card_map[id]] = id
            /\ \A n1, n2 \in names :
                  FirstRecord(call.cards_data, n1) < FirstRecord(call.cards_data, n2)
                      <=> m.card_id_map[n1] < m.card_id_map[n2]

\* C15 witness: an index built from records of three names, the first name
\* repeated after another one.
C15_Witness ==
    /\ call.op = "__init__"
    /\ call.result = "returned"
    /\ Len(call.cards_data) = 4
    /\ call.cards_data[1].name = call.cards_data[3].name
    /\ Cardinality(NamesOf(call.cards_data)) = 3
    /\ Cardinality(DOMAIN call.maps.id_card_map) = 3

\* C16 (as claimed): constructing the instance on an empty record sequence,
\* or on one with a record that has no name, fails at build time, so no
\* draft starts on such a catalog.
C16_BadCatalogFailsAtBuild ==
    (call.op # "load"
        /\ \/ call.cards_data = <<>>
           \/ \E i \in 1..Len(call.cards_data) : ~HasName(call.cards_data[i]))
    => (call.result # "returned" /\ env = Absent)

---------------------------------------------------------------------------
(* The deck assembler on its own: build_deck called on an instance whose   *)
(* draft left a pick history of at least main_count cards.  Only the       *)
(* fields build_deck reads are set up: card_color_identity from the        *)
(* catalog, basic_land_ids as reset registers them, user_picks.            *)

DeckLands ==
    <<Card("Plains", <<"W">>, "common", TRUE),
      Card("Island", <<"U">>, "common", TRUE),
      Card("Forest", <<"G">>, "common", TRUE)>>

DeckSpells ==
    <<Card("Knight", <<"W">>, "common", FALSE),
      Card("Drake", <<"U">>, "uncommon", FALSE),
      Card("Bear", <<"G">>, "common", FALSE),
      Card("Golem", <<>>, "uncommon", FALSE)>>

\* The subsequence of seq at the places in keep
RECURSIVE Keep(_, _, _)
Keep(seq, keep, i) ==
    IF i > Len(seq) THEN <<>>
    ELSE (IF i \in keep THEN <<seq[i]>> ELSE <<>>) \o Keep(seq, keep, i + 1)

\* Catalogs with any of the three lands, listed before or after the spells
DeckCatalogs ==
    {Keep(DeckLands, keep, 1) \o DeckSpells : keep \in SUBSET (1..Len(DeckLands))}
    \cup {DeckSpells \o Keep(DeckLands, keep, 1) : keep \in SUBSET (1..Len(DeckLands))}

\* A pick history of n cards with w white, u blue and g green ones, the
\* rest colorless
History(cards_data, w, u, g, n) ==
    LET id == _build_maps(cards_data).card_id_map
    IN  Repeat(id["Knight"], w) \o Repeat(id["Drake"], u) \o Repeat(id["Bear"], g)
            \o Repeat(id["Golem"], n - w - u - g)

Drafted(picks) ==
    [op |-> "draft", arg |-> Len(picks), result |-> "returned", deck |-> <<>>]

InitDeck ==
    /\ \E cards_data \in DeckCatalogs, w, u, g \in 0..MaxTally,
          n \in main_count..(main_count + MaxExtraPicks) :
          /\ env = [NewEnv(cards_data)
                       EXCEPT !.basic_land_ids = _populate_basic_land_ids(NewEnv(cards_data)),
                              !.user_picks = History(cards_data, w, u, g, n)]
          /\ call = Drafted(env.user_picks)
    /\ random_state = 0
    /\ env2 = Absent
    /\ calls2 = 0
    /\ ref = Absent
    /\ ref_random = 0

\* env.build_deck()
BuildDeck ==
    /\ call.op = "draft"
    /\ call' = [call EXCEPT !.op = "build_deck", !.deck = build_deck(env)]
    /\ UNCHANGED <<env, random_state, env2, calls2, ref, ref_random>>

NextDeck == BuildDeck

SpecDeck == InitDeck /\ [][NextDeck]_vars

\* C17 (as claimed): for every pick history of at least main_count cards
\* and every color tally, build_deck returns a deck of exactly main_count +
\* land_count cards: the lands allocated never exceed land_count in total.
C17_DeckHasSixtyCards ==
    (call.op = "build_deck" /\ Len(env.user_picks) >= main_count) =>
        Len(call.deck) = main_count + land_count

\* The values build_deck computes on its way: tallies, their sum, the
\* per-color allocation <<land_ids, used>>
DeckCounts(e) ==
    [c \in DOMAIN e.basic_land_ids |->
        ColorCount(e, SubSeq(e.user_picks, 1, Min(main_count, Len(e.user_picks))), c)]
DeckAlloc(e) ==
    allocate_loop(e, DeckCounts(e), SumCounts(DeckCounts(e), 1), 1, <<<<>>, 0>>)

\* C18 (as claimed): when the rounded allocations sum to less than
\* land_count, the whole shortfall is the basic land of the color with the
\* largest tally, and the default color's basic land only if that color
\* has no basic land registered, whatever identities the basic lands have.
C18_ShortfallToTopColor ==
    (/\ call.op = "build_deck"
     /\ SumCounts(DeckCounts(env), 1) > 0
     /\ DeckAlloc(env)[2] < land_count) =>
        LET top == env.basic_land_ids[TopColor(DeckCounts(env))]
            first == Min(main_count, Len(env.user_picks)) + DeckAlloc(env)[2]
        IN  \A i \in (first + 1)..Len(call.deck) :
                call.deck[i] = IF top # None THEN top ELSE env.basic_land_ids["U"]

---------------------------------------------------------------------------
(* Properties of the passing of packs and of a step's effect (Spec).       *)

C20_StepFrame ==
    [][(env.started /\ call'.op = "step" /\ Applied) =>
        LET rd == env.round_idx + 1
            mine == env.pack_holder[1] + 1
            slot == call'.arg + 1
            before == env.all_packs_by_round
            after == env'.all_packs_by_round
        IN  /\ before[rd][mine][slot] # None
            /\ env'.user_picks = Append(env.user_picks, before[rd][mine][slot])
            /\ \A i \in 1..cards_per_pack :
                  after[rd][mine][i] = IF i = slot THEN None ELSE before[rd][mine][i]
            /\ \A pk \in 1..num_players :
                  FilledCount(after[rd][pk]) >= FilledCount(before[rd][pk]) - 1
            /\ \A r2 \in 1..num_packs : \A pk \in 1..num_players :
                  /\ Len(after[r2][pk]) = cards_per_pack
                  /\ \A i \in 1..cards_per_pack :
                        after[r2][pk][i] = before[r2][pk][i] \/ after[r2][pk][i] = None
            /\ \A r2 \in 1..num_packs : r2 # rd => after[r2] = before[r2]]_vars

\* C20 witness: an accepted step mid-round that took the card of a slot
\* other than the first, from a pack another seat had picked from before.
C20_Witness ==
    /\ env.started
    /\ ~env.done_drafting
    /\ call.op = "step"
    /\ call.arity = 5
    /\ call.arg > 0
    /\ call.pre.pick_idx = 1
    /\ env.pick_idx = 2
    /\ Len(env.user_picks) >= 2

---------------------------------------------------------------------------
(* Properties of the other seats' picks and of the counters (Spec).        *)

\* The pack seat `seat` (0-based) holds in instance e
HeldPack(e, seat) == e.all_packs_by_round[e.round_idx + 1][e.pack_holder[seat + 1] + 1]

\* C21: an accepted step during which another seat holds a pack with no
\* card completes normally: seat 0's pick is applied, that seat picks
\* nothing, every other pack with cards loses one, the packs are passed on
\* and the pick counter advances by one (or the round ends).
C21_EmptyHandStepCompletes ==
    [][(/\ env.started
        /\ call'.op = "step"
        /\ Applied
        /\ \E seat \in 1..(num_players - 1) : FilledCount(HeldPack(env, seat)) = 0)
       => /\ Len(env'.user_picks) = Len(env.user_picks) + 1
          /\ \A seat \in 0..(num_players - 1) :
                FilledCount(env'.all_packs_by_round[env.round_idx + 1][env.pack_holder[seat + 1] + 1])
                    = IF FilledCount(HeldPack(env, seat)) = 0 THEN 0
                      ELSE FilledCount(HeldPack(env, seat)) - 1
          /\ \/ env'.pick_idx = env.pick_idx + 1
                   /\ env'.pack_holder = pass_right(env.pack_holder)
             \/ env'.pick_idx = 0 /\ env'.round_idx = env.round_idx + 1]_vars

\* C21, its case: the state the claim is about, a step being accepted
\* while another seat holds a pack with no card.  All packs of a round are
\* generated with the same number of cards and every accepted step takes
\* one out of each, so this is the negation of what holds: whenever a step
\* is accepted, every seat holds a pack with a card.
C21_NoEmptyHandInAcceptedStep ==
    [][(env.started /\ call'.op = "step" /\ Applied)
       => \A seat \in 0..(num_players - 1) : FilledCount(HeldPack(env, seat)) > 0]_vars

\* C22: in every state, before and after any mix of accepted steps,
\* rejected steps and resets: 0 <= round_idx <= num_packs, 0 <= pick_idx <
\* cards_per_pack, the pick history has round_idx * cards_per_pack +
\* pick_idx entries, and the table is terminal if and only if round_idx =
\* num_packs; the history grows by exactly one with an accepted step and
\* stays as it is with any other step.
C22_CountersAndHistory ==
    /\ [](/\ env.round_idx \in 0..num_packs
          /\ env.pick_idx \in 0..(cards_per_pack - 1)
          /\ Len(env.user_picks) = env.round_idx * cards_per_pack + env.pick_idx
          /\ env.done_drafting <=> env.round_idx = num_packs)
    /\ [][call'.op = "step" =>
            Len(env'.user_picks) = Len(env.user_picks) + (IF Applied THEN 1 ELSE 0)]_vars

\* C22 witness: a rejected step one pick into the second round.
C22_Witness ==
    /\ env.started
    /\ call.op = "step"
    /\ call.reward = <<-1, 1>>
    /\ env.round_idx = 1
    /\ env.pick_idx = 1
    /\ Len(env.user_picks) = cards_per_pack + 1

====
